---- MODULE Spec2Model ----
(***************************************************************************)
(* Model of the ST7735 display driver (src/src/lib.rs).                    *)
(*                                                                         *)
(* The session owns an SPI bus, a data/command pin and a reset pin.  The   *)
(* model records, for each call on the session, the ordered list of        *)
(* collaborator calls the driver made (pin drives, bus writes, delays),    *)
(* the value the call returned, and the session fields afterwards.         *)
(*                                                                         *)
(* A bus write of an opcode carries the Instruction's name in field cmd    *)
(* (its wire byte is Instruction::to_u8 of that name, defined in the       *)
(* instruction module, which lib.rs only imports); every other byte is a   *)
(* number in field bytes.                                                  *)
(***************************************************************************)
EXTENDS Integers, Sequences, FiniteSets, TLC

VARIABLES
    rgb,            \* self.rgb
    inverted,       \* self.inverted
    dx,             \* self.dx
    dy,             \* self.dy
    width,          \* self.width
    height,         \* self.height
    dcLine,         \* level of the data/command pin: 0 low, 1 high
    rstLine,        \* level of the reset pin
    overflowChecks, \* build profile: TRUE = integer overflow panics, FALSE = wraps
    op,             \* the last call: [name, a (arguments), colors]
    res,            \* what the last call returned: "ok", "err", "panic", "none"
    trace,          \* collaborator calls made by the last call, in order
    pre,            \* session fields and line levels before the last call
    initialized,    \* history: an init call on the session has returned Ok
    bgrBit          \* history: bit 0x08 of the last memory-access-control
                    \* parameter written to the bus (-1: none written yet)

vars == <<rgb, inverted, dx, dy, width, height, dcLine, rstLine,
          overflowChecks, op, res, trace, pre, initialized, bgrBit>>

-----------------------------------------------------------------------------
(* Bounds of the model *)

\* longest colour sequence handed to write_pixels / set_pixels
MaxColors == 2
\* largest number of pixels a modelled set_color call streams
MaxPixels == 2
\* SpecCall: the collaborator call that fails is one of the first MaxFailAt
MaxFailAt == 80
\* Spec: the collaborator call that fails is one of the first MaxFail
MaxFail == 1

\* panel sizes (u32) a session is constructed with
Sizes == {<<160, 128>>}

\* Arguments of the calls of Spec (any sequence of calls on one session)
Coords == {0, 1}
Offsets == {0, 65535}
Windows == {<<0, 0, 1, 1>>, <<1, 0, 0, 1>>}
Colors == {4779}

\* Arguments of the single call of SpecCall (one call, on a session in any state)
CallCoords == {0, 1, 65535}
CallOffsets == {<<0, 0>>, <<3, 65535>>, <<65535, 0>>}
CallWindows ==
    {<<0, 0, 1, 1>>, <<1, 0, 0, 65535>>, <<65535, 1, 0, 0>>,
     <<0, 65535, 65535, 0>>}
FillColumns == {0, 1, 255, 65535}
FillRows == {0, 255}
\* 16-bit colour words: BLACK and one with distinct high and low bytes
CallColors == {0, 4779}

-----------------------------------------------------------------------------
(* Integer arithmetic of the source's types *)

U16 == 65536

\* u16 + u16, u16 - u16, u16 * u16: the wrapped value and whether it overflowed
Add16(a, b) == [v |-> (a + b) % U16, ovf |-> a + b >= U16]
Sub16(a, b) == [v |-> (a - b + U16) % U16, ovf |-> a < b]
\* (the product is formed from the bytes of a, so that no intermediate value
\* exceeds 32 bits)
Mul16(a, b) ==
    [v |-> ((((a \div 256) * b) % 256) * 256 + (a % 256) * b) % U16,
     ovf |-> a # 0 /\ b > 65535 \div a]

-----------------------------------------------------------------------------
(* Collaborator calls *)

\* Option<&[u8]>
None == [some |-> FALSE, data |-> <<>>]
Some(data) == [some |-> TRUE, data |-> data]

\* One call on a collaborator: a pin drive (pin "dc" or "rst", level v), a bus
\* write (pin "spi", of an opcode cmd or of data bytes), or a delay (pin
\* "delay", v milliseconds); ok tells whether it succeeded.
Event(pin, v, cmd, bytes) ==
    [pin |-> pin, v |-> v, cmd |-> cmd, bytes |-> bytes, ok |-> TRUE]

\* delay.delay_ms(ms): cannot fail
DelayMs(ms) == Event("delay", ms, <<>>, <<>>)

\* the point where an arithmetic overflow aborts the call
Panic == Event("panic", 0, <<>>, <<>>)

Fallible(e) == e.pin \in {"dc", "rst", "spi"}

-----------------------------------------------------------------------------
(* The driver's methods.  Every fallible collaborator call in them is       *)
(* followed by "?" (or is the value returned), so a method is the sequence  *)
(* of collaborator calls it makes while none fails; Run cuts the sequence   *)
(* at the call that fails.                                                  *)

\* hard_reset that does not release the reset line again
hard_reset_StaysLow ==
    <<Event("rst", 1, <<>>, <<>>), Event("rst", 0, <<>>, <<>>)>>

hard_reset ==
    <<Event("rst", 1, <<>>, <<>>),
      Event("rst", 0, <<>>, <<>>),
      Event("rst", 1, <<>>, <<>>)>>

\* write_data that leaves the data/command line as it is
write_data_NoDcHigh(data) == <<Event("spi", 0, <<>>, data)>>

write_data(data) ==
    <<Event("dc", 1, <<>>, <<>>), Event("spi", 0, <<>>, data)>>

write_command(command, params) ==
    <<Event("dc", 0, <<>>, <<>>), Event("spi", 0, <<command>>, <<>>)>>
    \o (IF params.some THEN write_data(params.data) ELSE <<>>)

\* value.to_be() transmuted to [u8; 2]: high byte first
ToBeBytes(value) == <<value \div 256, value % 256>>

write_word(value) == write_data(ToBeBytes(value))

\* init with the colour-order branches exchanged
init_SwappedColourOrder ==
    hard_reset
    \o write_command("SWRESET", None)
    \o <<DelayMs(200)>>
    \o write_command("SLPOUT", None)
    \o <<DelayMs(200)>>
    \o write_command("FRMCTR1", Some(<<1, 44, 45>>))
    \o write_command("FRMCTR2", Some(<<1, 44, 45>>))
    \o write_command("FRMCTR3", Some(<<1, 44, 45, 1, 44, 45>>))
    \o write_command("INVCTR", Some(<<7>>))
    \o write_command("PWCTR1", Some(<<162, 2, 132>>))
    \o write_command("PWCTR2", Some(<<197>>))
    \o write_command("PWCTR3", Some(<<10, 0>>))
    \o write_command("PWCTR4", Some(<<138, 42>>))
    \o write_command("PWCTR5", Some(<<138, 238>>))
    \o write_command("VMCTR1", Some(<<14>>))
    \o (IF inverted
        THEN write_command("INVON", None)
        ELSE write_command("INVOFF", None))
    \o (IF rgb
        THEN write_command("MADCTL", Some(<<8>>))
        ELSE write_command("MADCTL", Some(<<0>>)))
    \o write_command("COLMOD", Some(<<5>>))
    \o write_command("DISPON", None)
    \o <<DelayMs(200)>>

init ==
    hard_reset
    \o write_command("SWRESET", None)
    \o <<DelayMs(200)>>
    \o write_command("SLPOUT", None)
    \o <<DelayMs(200)>>
    \o write_command("FRMCTR1", Some(<<1, 44, 45>>))
    \o write_command("FRMCTR2", Some(<<1, 44, 45>>))
    \o write_command("FRMCTR3", Some(<<1, 44, 45, 1, 44, 45>>))
    \o write_command("INVCTR", Some(<<7>>))
    \o write_command("PWCTR1", Some(<<162, 2, 132>>))
    \o write_command("PWCTR2", Some(<<197>>))
    \o write_command("PWCTR3", Some(<<10, 0>>))
    \o write_command("PWCTR4", Some(<<138, 42>>))
    \o write_command("PWCTR5", Some(<<138, 238>>))
    \o write_command("VMCTR1", Some(<<14>>))
    \o (IF inverted
        THEN write_command("INVON", None)
        ELSE write_command("INVOFF", None))
    \o (IF rgb
        THEN write_command("MADCTL", Some(<<0>>))
        ELSE write_command("MADCTL", Some(<<8>>)))
    \o write_command("COLMOD", Some(<<5>>))
    \o write_command("DISPON", None)
    \o <<DelayMs(200)>>

\* enum Orientation and its derived to_u8
Orientation == {"Portrait", "Landscape", "PortraitSwapped", "LandscapeSwapped"}
\* a Landscape pattern that has bit 0x08 itself
OrientationToU8_LandscapeHasBit3(o) ==
    CASE o = "Portrait" -> 0
      [] o = "Landscape" -> 104
      [] o = "PortraitSwapped" -> 192
      [] o = "LandscapeSwapped" -> 160

OrientationToU8(o) ==
    CASE o = "Portrait" -> 0
      [] o = "Landscape" -> 96
      [] o = "PortraitSwapped" -> 192
      [] o = "LandscapeSwapped" -> 160

\* u8 | u8, bit by bit
BitOr8(a, b) ==
    LET Bit(x, i) == (x \div (2 ^ i)) % 2
        Or(i) == IF Bit(a, i) = 1 \/ Bit(b, i) = 1 THEN 2 ^ i ELSE 0
    IN  Or(0) + Or(1) + Or(2) + Or(3) + Or(4) + Or(5) + Or(6) + Or(7)

\* set_orientation that writes the orientation's pattern for either colour order
set_orientation_NoBgrBit(orientation) ==
    write_command("MADCTL", Some(<<OrientationToU8(orientation)>>))

set_orientation(orientation) ==
    IF rgb
    THEN write_command("MADCTL", Some(<<OrientationToU8(orientation)>>))
    ELSE write_command("MADCTL", Some(<<BitOr8(OrientationToU8(orientation), 8)>>))

\* self.write_word(a + b): the sum is formed first, in u16; where overflow is
\* checked an overflowing sum aborts the call, otherwise it wraps
write_word_sum(a, b) ==
    IF Add16(a, b).ovf /\ overflowChecks
    THEN <<Panic>>
    ELSE write_word(Add16(a, b).v)

\* set_address_window that does nothing until an init has returned Ok
set_address_window_OnlyInitialized(sx, sy, ex, ey) ==
    IF initialized
    THEN write_command("CASET", None)
         \o write_word_sum(sx, dx)
         \o write_word_sum(ex, dx)
         \o write_command("RASET", None)
         \o write_word_sum(sy, dy)
         \o write_word_sum(ey, dy)
    ELSE <<>>

set_address_window(sx, sy, ex, ey) ==
    write_command("CASET", None)
    \o write_word_sum(sx, dx)
    \o write_word_sum(ex, dx)
    \o write_command("RASET", None)
    \o write_word_sum(sy, dy)
    \o write_word_sum(ey, dy)

set_pixel(x, y, color) ==
    set_address_window(x, y, x, y)
    \o write_command("RAMWR", None)
    \o write_word(color)

\* for color in colors { self.write_word(color)?; }
\* (the k-th call of the loop is a call of the write_word of colour (k+1)/2)
write_pixels_loop(colors) ==
    [k \in 1..(2 * Len(colors)) |->
        write_word(colors[(k + 1) \div 2])[2 - (k % 2)]]

\* write_pixels that issues the memory-write opcode before every colour
write_pixels_OpcodePerColour(colors) ==
    IF colors = <<>>
    THEN write_command("RAMWR", None)
    ELSE [k \in 1..(4 * Len(colors)) |->
            (write_command("RAMWR", None)
             \o write_word(colors[(k + 3) \div 4]))[((k - 1) % 4) + 1]]

write_pixels(colors) ==
    write_command("RAMWR", None) \o write_pixels_loop(colors)

set_pixels(sx, sy, ex, ey, colors) ==
    set_address_window(sx, sy, ex, ey) \o write_pixels(colors)

\* a pixel count that counts the columns of the window and forgets its rows
pixel_count_ColumnsOnly(sx, sy, ex, ey) ==
    LET w0 == Sub16(ex, sx)
        w  == Add16(w0.v, 1)
    IN  [v |-> w.v, ovf |-> w0.ovf \/ w.ovf]

\* (ex - sx + 1) * (ey - sy + 1) in u16
pixel_count(sx, sy, ex, ey) ==
    LET w0 == Sub16(ex, sx)
        w  == Add16(w0.v, 1)
        h0 == Sub16(ey, sy)
        h  == Add16(h0.v, 1)
        p  == Mul16(w.v, h.v)
    IN  [v |-> p.v, ovf |-> w0.ovf \/ w.ovf \/ h0.ovf \/ h.ovf \/ p.ovf]

set_color(sx, sy, ex, ey, color) ==
    set_address_window(sx, sy, ex, ey)
    \o (IF pixel_count(sx, sy, ex, ey).ovf /\ overflowChecks
        THEN <<Panic>>
        ELSE write_pixels([i \in 1..pixel_count(sx, sy, ex, ey).v |-> color]))

-----------------------------------------------------------------------------
(* Running a method *)

Min(S) == CHOOSE i \in S : \A j \in S : i <= j

\* the index of the first overflow abort in calls, or Len(calls) + 1
FirstPanic(calls) ==
    Min({i \in 1..Len(calls) : calls[i].pin = "panic"} \cup {Len(calls) + 1})

\* a run that goes on after the failing call and returns Ok
Run_Swallow(calls, failAt) ==
    LET stop == FirstPanic(calls)
    IN  [log |-> [i \in 1..(stop - 1) |-> [calls[i] EXCEPT !.ok = (i # failAt)]],
         res |-> IF stop <= Len(calls) THEN "panic" ELSE "ok"]

\* a run that goes on after the failing call and returns its error at the end
Run_NoAbort(calls, failAt) ==
    LET stop == FirstPanic(calls)
    IN  [log |-> [i \in 1..(stop - 1) |-> [calls[i] EXCEPT !.ok = (i # failAt)]],
         res |-> IF failAt \in 1..(stop - 1) THEN "err"
                 ELSE IF stop <= Len(calls) THEN "panic" ELSE "ok"]

\* The method whose calls are calls, run with its failAt-th call failing
\* (0: none fails): the collaborator calls made and the result.  "?" returns
\* the error of the call that fails; an overflow abort that comes first ends
\* the call in a panic.
Run(calls, failAt) ==
    LET stop == FirstPanic(calls)
    IN  IF failAt \in 1..(stop - 1)
        THEN [log |-> [i \in 1..failAt |-> [calls[i] EXCEPT !.ok = (i # failAt)]],
              res |-> "err"]
        ELSE [log |-> SubSeq(calls, 1, stop - 1),
              res |-> IF stop <= Len(calls) THEN "panic" ELSE "ok"]

\* the calls of calls that can fail, among its first limit calls (and 0)
FailAts(calls, limit) ==
    {0} \cup {i \in 1..Len(calls) : i <= limit /\ Fallible(calls[i])}

-----------------------------------------------------------------------------
(* Calls on the session *)

\* the levels a pin can have after the calls in log, starting from level:
\* a drive that failed may or may not have changed the line
LineOutcomes(level, log, pin) ==
    LET D == SelectSeq(log, LAMBDA e : e.pin = pin)
        G == SelectSeq(D, LAMBDA e : e.ok)
        good == IF G = <<>> THEN level ELSE G[Len(G)].v
    IN  IF D # <<>> /\ ~D[Len(D)].ok
        THEN {good, D[Len(D)].v}
        ELSE {good}

Pre == [dx |-> dx, dy |-> dy, dcLine |-> dcLine, rstLine |-> rstLine,
        initialized |-> initialized]

\* bit 0x08 of the memory-access-control parameter that the calls in log wrote
\* to the bus (the data write that follows the MADCTL opcode), or old when
\* they wrote none
BgrBitAfter(old, log) ==
    LET W == {i \in 3..Len(log) :
                 /\ log[i].pin = "spi"
                 /\ log[i].ok
                 /\ log[i].cmd = <<>>
                 /\ log[i - 2].cmd = <<"MADCTL">>}
    IN  IF W = {} THEN old
        ELSE (log[CHOOSE i \in W : \A j \in W : j <= i].bytes[1] \div 8) % 2

\* the method name, called with arguments a and colors, ran as r
\* a return that puts the offset back to (0,0) when the method failed
Returns_FailureResetsOffset(name, a, colors, r) ==
    /\ op' = [name |-> name, a |-> a, colors |-> colors]
    /\ res' = r.res
    /\ trace' = r.log
    /\ dcLine' \in LineOutcomes(dcLine, r.log, "dc")
    /\ rstLine' \in LineOutcomes(rstLine, r.log, "rst")
    /\ pre' = Pre
    /\ initialized' = (initialized \/ (name = "init" /\ r.res = "ok"))
    /\ bgrBit' = BgrBitAfter(bgrBit, r.log)
    /\ dx' = (IF r.res = "err" THEN 0 ELSE dx)
    /\ dy' = (IF r.res = "err" THEN 0 ELSE dy)
    /\ UNCHANGED <<rgb, inverted, width, height, overflowChecks>>

Returns(name, a, colors, r) ==
    /\ op' = [name |-> name, a |-> a, colors |-> colors]
    /\ res' = r.res
    /\ trace' = r.log
    /\ dcLine' \in LineOutcomes(dcLine, r.log, "dc")
    /\ rstLine' \in LineOutcomes(rstLine, r.log, "rst")
    /\ pre' = Pre
    /\ initialized' = (initialized \/ (name = "init" /\ r.res = "ok"))
    /\ bgrBit' = BgrBitAfter(bgrBit, r.log)
    /\ UNCHANGED <<rgb, inverted, width, height, overflowChecks, dx, dy>>

\* colour sequences of length 0..MaxColors
ColorSeqs(C) == UNION {[1..n -> C] : n \in 0..MaxColors}

\* windows whose set_color streams at most MaxPixels pixels
FillWindows ==
    {w \in FillColumns \X FillRows \X FillColumns \X FillRows :
        pixel_count(w[1], w[2], w[3], w[4]).v <= MaxPixels}

\* init that returns Ok without a reset or a bus write once an init has
\* returned Ok on the session
InitCalled_OnlyOnce(limit) ==
    \E f \in FailAts(init, limit) :
        Returns("init", <<>>, <<>>,
                IF initialized THEN Run(<<>>, 0) ELSE Run(init, f))

InitCalled(limit) ==
    \E f \in FailAts(init, limit) :
        Returns("init", <<>>, <<>>, Run(init, f))

HardResetCalled(limit) ==
    \E f \in FailAts(hard_reset, limit) :
        Returns("hard_reset", <<>>, <<>>, Run(hard_reset, f))

SetOrientationCalled(limit) ==
    \E o \in Orientation :
        \E f \in FailAts(set_orientation(o), limit) :
            Returns("set_orientation", <<o>>, <<>>, Run(set_orientation(o), f))

\* set_offset that sends the column-address-set opcode for the new offset
SetOffsetCalled_WritesBus(O) ==
    \E o \in O :
        /\ dx' = o[1]
        /\ dy' = o[2]
        /\ op' = [name |-> "set_offset", a |-> o, colors |-> <<>>]
        /\ res' = "ok"
        /\ trace' = write_command("CASET", None)
        /\ dcLine' = 0
        /\ pre' = Pre
        /\ UNCHANGED <<rgb, inverted, width, height, overflowChecks,
                       rstLine, initialized, bgrBit>>

SetOffsetCalled(O) ==
    \E o \in O :
        /\ dx' = o[1]
        /\ dy' = o[2]
        /\ op' = [name |-> "set_offset", a |-> o, colors |-> <<>>]
        /\ res' = "none"
        /\ trace' = <<>>
        /\ pre' = Pre
        /\ UNCHANGED <<rgb, inverted, width, height, overflowChecks,
                       dcLine, rstLine, initialized, bgrBit>>

SetPixelCalled(X, Y, C, limit) ==
    \E x \in X, y \in Y, color \in C :
        \E f \in FailAts(set_pixel(x, y, color), limit) :
            Returns("set_pixel", <<x, y, color>>, <<>>,
                    Run(set_pixel(x, y, color), f))

WritePixelsCalled(C, limit) ==
    \E colors \in ColorSeqs(C) :
        \E f \in FailAts(write_pixels(colors), limit) :
            Returns("write_pixels", <<>>, colors, Run(write_pixels(colors), f))

SetPixelsCalled(W, C, limit) ==
    \E w \in W, colors \in ColorSeqs(C) :
        \E f \in FailAts(set_pixels(w[1], w[2], w[3], w[4], colors), limit) :
            Returns("set_pixels", w, colors,
                    Run(set_pixels(w[1], w[2], w[3], w[4], colors), f))

SetColorCalled(W, C, limit) ==
    \E w \in W, color \in C :
        \E f \in FailAts(set_color(w[1], w[2], w[3], w[4], color), limit) :
            Returns("set_color", <<w[1], w[2], w[3], w[4], color>>, <<>>,
                    Run(set_color(w[1], w[2], w[3], w[4], color), f))

-----------------------------------------------------------------------------
(* Spec: a session from construction on, under any sequence of calls *)

NoCall == [name |-> "new", a |-> <<>>, colors |-> <<>>]

\* ST7735::new
Init ==
    /\ rgb \in BOOLEAN
    /\ inverted \in BOOLEAN
    /\ dx = 0
    /\ dy = 0
    /\ \E s \in Sizes : width = s[1] /\ height = s[2]
    /\ dcLine \in {0, 1}
    /\ rstLine \in {0, 1}
    /\ overflowChecks \in BOOLEAN
    /\ op = NoCall
    /\ res = "none"
    /\ trace = <<>>
    /\ initialized = FALSE
    /\ bgrBit = -1
    /\ pre = Pre

DoInit == InitCalled(MaxFail)
DoHardReset == HardResetCalled(MaxFail)
DoSetOrientation == SetOrientationCalled(MaxFail)
DoSetOffset == SetOffsetCalled(Offsets \X Offsets)
DoSetPixel == SetPixelCalled(Coords, Coords, Colors, MaxFail)
DoWritePixels == WritePixelsCalled(Colors, MaxFail)
DoSetPixels == SetPixelsCalled(Windows, Colors, MaxFail)
DoSetColor == SetColorCalled(Windows, Colors, MaxFail)

Next ==
    \/ DoInit
    \/ DoHardReset
    \/ DoSetOrientation
    \/ DoSetOffset
    \/ DoSetPixel
    \/ DoWritePixels
    \/ DoSetPixels
    \/ DoSetColor

Spec == Init /\ [][Next]_vars

-----------------------------------------------------------------------------
(* SpecCall: one call, with arguments from the wider sets, on a session   *)
(* whose offset is any that set_offset can have left                      *)

InitCall ==
    /\ rgb \in BOOLEAN
    /\ inverted \in BOOLEAN
    /\ \E o \in CallOffsets : dx = o[1] /\ dy = o[2]
    /\ \E s \in Sizes : width = s[1] /\ height = s[2]
    /\ dcLine \in {0, 1}
    /\ rstLine \in {0, 1}
    /\ overflowChecks \in BOOLEAN
    /\ op = NoCall
    /\ res = "none"
    /\ trace = <<>>
    /\ initialized = FALSE
    /\ bgrBit = -1
    /\ pre = Pre

First == op = NoCall

CallInit == First /\ InitCalled(MaxFailAt)
CallHardReset == First /\ HardResetCalled(MaxFailAt)
CallSetOrientation == First /\ SetOrientationCalled(MaxFailAt)
CallSetOffset == First /\ SetOffsetCalled(CallOffsets)
CallSetPixel ==
    First /\ SetPixelCalled(CallCoords, CallCoords, CallColors, MaxFailAt)
CallWritePixels == First /\ WritePixelsCalled(CallColors, MaxFailAt)
CallSetPixels == First /\ SetPixelsCalled(CallWindows, CallColors, MaxFailAt)
CallSetColor == First /\ SetColorCalled(FillWindows, CallColors, MaxFailAt)

NextCall ==
    \/ CallInit
    \/ CallHardReset
    \/ CallSetOrientation
    \/ CallSetOffset
    \/ CallSetPixel
    \/ CallWritePixels
    \/ CallSetPixels
    \/ CallSetColor

SpecCall == InitCall /\ [][NextCall]_vars
-----------------------------------------------------------------------------
(* What a call is observed to have done *)

\* no pin drive and no bus write of the last call failed
NoFailure == \A i \in 1..Len(trace) : trace[i].ok

\* level of the data/command line when the i-th collaborator call was made
DcAt(i) ==
    IF i > 1 /\ trace[i - 1].pin = "dc" /\ trace[i - 1].ok
    THEN trace[i - 1].v
    ELSE LET D == {j \in 1..(i - 1) : trace[j].pin = "dc"}
         IN  IF D = {}
             THEN pre.dcLine
             ELSE trace[CHOOSE j \in D : \A k \in D : k <= j].v

\* the bus writes of the last call, each with the level of the data/command
\* line during the write
Bus ==
    SelectSeq([i \in 1..Len(trace) |->
                  IF trace[i].pin = "spi"
                  THEN [dc |-> DcAt(i), cmd |-> trace[i].cmd,
                        bytes |-> trace[i].bytes]
                  ELSE [dc |-> -1, cmd |-> <<>>, bytes |-> <<>>]],
              LAMBDA e : e.dc # -1)

\* an opcode on the bus: one byte, in command state
Opcode(name) == [dc |-> 0, cmd |-> <<name>>, bytes |-> <<>>]
\* parameter bytes on the bus, in data state
Data(bytes) == [dc |-> 1, cmd |-> <<>>, bytes |-> bytes]
\* a 16-bit word on the bus, high byte first
Word(value) == Data(<<value \div 256, value % 256>>)
\* the 16-bit word that holds a coordinate plus an offset
Sum(coordinate, offset) == Word((coordinate + offset) % 65536)

\* pin drives of the reset line, bus writes and delays of the last call
Steps ==
    LET S == SelectSeq(trace, LAMBDA e : e.pin # "dc")
    IN  [i \in 1..Len(S) |-> [pin |-> S[i].pin, v |-> S[i].v,
                              cmd |-> S[i].cmd, bytes |-> S[i].bytes]]

-----------------------------------------------------------------------------
(* C1 *)

\* C1: every opcode is written as a single one-byte bus write while the
\* data/command line is low, every parameter or pixel byte is written while
\* the line is high, and the line is driven low only to write an opcode.
C1_CommandDataDiscipline ==
    /\ \A i \in 1..Len(trace) :
          trace[i].pin = "spi" =>
              IF trace[i].cmd # <<>>
              THEN Len(trace[i].cmd) = 1 /\ trace[i].bytes = <<>> /\ DcAt(i) = 0
              ELSE DcAt(i) = 1
    /\ \A i \in 1..(Len(trace) - 1) :
          (trace[i].pin = "dc" /\ trace[i].v = 0) =>
              (trace[i + 1].pin = "spi" /\ trace[i + 1].cmd # <<>>)

C1_Witness ==
    /\ op.name = "set_pixels"
    /\ res = "ok"
    /\ Len(op.colors) = 2

-----------------------------------------------------------------------------
(* C2 *)

\* C2: for all 16-bit x, y, c, when nothing fails, set_pixel(x, y, c) emits
\* exactly: column-address-set, the 16-bit words x+offset_x and x+offset_x,
\* row-address-set, the 16-bit words y+offset_y and y+offset_y, memory-write,
\* and the word c, every word high byte first.
C2_SetPixelEmission ==
    (op.name = "set_pixel" /\ NoFailure) =>
        Bus = <<Opcode("CASET"), Sum(op.a[1], dx), Sum(op.a[1], dx),
                Opcode("RASET"), Sum(op.a[2], dy), Sum(op.a[2], dy),
                Opcode("RAMWR"), Word(op.a[3])>>

-----------------------------------------------------------------------------
(* C3 *)

\* the bus writes of an address-window write for (sx, sy)-(ex, ey)
WindowWrites(sx, sy, ex, ey) ==
    <<Opcode("CASET"), Sum(sx, dx), Sum(ex, dx),
      Opcode("RASET"), Sum(sy, dy), Sum(ey, dy)>>

\* C3: when nothing fails and sx <= ex, sy <= ey, set_color emits the
\* address-window write, one memory-write opcode and then exactly
\* (ex-sx+1)*(ey-sy+1) words c, the product being the true pixel count.
C3_SetColorPixelCount ==
    (/\ op.name = "set_color"
     /\ NoFailure
     /\ op.a[1] <= op.a[3]
     /\ op.a[2] <= op.a[4]) =>
        LET bus == Bus
        IN  /\ Len(bus) = 7 + (op.a[3] - op.a[1] + 1) * (op.a[4] - op.a[2] + 1)
            /\ SubSeq(bus, 1, 6) = WindowWrites(op.a[1], op.a[2], op.a[3], op.a[4])
            /\ bus[7] = Opcode("RAMWR")
            /\ \A i \in 8..Len(bus) : bus[i] = Word(op.a[5])

-----------------------------------------------------------------------------
(* C4 *)

\* the steps of init, with the inversion opcode and the memory-access-control
\* parameter left open
InitSteps(inversion, madctl) ==
    LET Rst(v) == [pin |-> "rst", v |-> v, cmd |-> <<>>, bytes |-> <<>>]
        Delay  == [pin |-> "delay", v |-> 200, cmd |-> <<>>, bytes |-> <<>>]
        Op(n)  == [pin |-> "spi", v |-> 0, cmd |-> <<n>>, bytes |-> <<>>]
        Par(b) == [pin |-> "spi", v |-> 0, cmd |-> <<>>, bytes |-> b]
    IN  <<Rst(1), Rst(0), Rst(1),
          Op("SWRESET"), Delay,
          Op("SLPOUT"), Delay,
          Op("FRMCTR1"), Par(<<1, 44, 45>>),
          Op("FRMCTR2"), Par(<<1, 44, 45>>),
          Op("FRMCTR3"), Par(<<1, 44, 45, 1, 44, 45>>),
          Op("INVCTR"), Par(<<7>>),
          Op("PWCTR1"), Par(<<162, 2, 132>>),
          Op("PWCTR2"), Par(<<197>>),
          Op("PWCTR3"), Par(<<10, 0>>),
          Op("PWCTR4"), Par(<<138, 42>>),
          Op("PWCTR5"), Par(<<138, 238>>),
          Op("VMCTR1"), Par(<<14>>),
          Op(inversion),
          Op("MADCTL"), Par(<<madctl>>),
          Op("COLMOD"), Par(<<5>>),
          Op("DISPON"), Delay>>

\* C4: when nothing fails, init makes its steps in one fixed order for every
\* value of the flags; only the inversion opcode (inversion-on iff inverted)
\* and the memory-access-control parameter (0x00 iff RGB, else 0x08) depend
\* on them.
C4_InitOrder ==
    (op.name = "init" /\ NoFailure) =>
        Steps = InitSteps(IF inverted THEN "INVON" ELSE "INVOFF",
                          IF rgb THEN 0 ELSE 8)

C4_Witness == op.name = "init" /\ res = "ok" /\ ~rgb /\ inverted

-----------------------------------------------------------------------------
(* C5 *)

BusCalls ==
    {"init", "hard_reset", "set_orientation", "set_pixel", "write_pixels",
     "set_pixels", "set_color"}

\* C5: a call that touches the bus or the control lines returns a failure if
\* and only if one of its bus writes or pin drives failed, and a failed write
\* is not made again.
C5_FailureIffWriteFailed ==
    op.name \in BusCalls =>
        /\ (res = "err") <=> ~NoFailure
        /\ \A i \in 1..(Len(trace) - 1) :
              ~trace[i].ok => [trace[i + 1] EXCEPT !.ok = FALSE] # trace[i]

C5_Witness ==
    /\ op.name = "set_color"
    /\ res = "err"
    /\ Len(trace) > 14

-----------------------------------------------------------------------------
(* C6 *)

\* the collaborator calls the last call makes when none of them fails
NoFailRun ==
    CASE op.name = "init" -> Run(init, 0)
      [] op.name = "hard_reset" -> Run(hard_reset, 0)
      [] op.name = "set_orientation" -> Run(set_orientation(op.a[1]), 0)
      [] op.name = "set_pixel" -> Run(set_pixel(op.a[1], op.a[2], op.a[3]), 0)
      [] op.name = "write_pixels" -> Run(write_pixels(op.colors), 0)
      [] op.name = "set_pixels" ->
            Run(set_pixels(op.a[1], op.a[2], op.a[3], op.a[4], op.colors), 0)
      [] op.name = "set_color" ->
            Run(set_color(op.a[1], op.a[2], op.a[3], op.a[4], op.a[5]), 0)

\* C6: the first failing bus write or pin drive ends the call: nothing is
\* written, driven or delayed after it, the call returns the failure, and what
\* was emitted up to the failure is a prefix of what the call emits when
\* nothing fails.
C6_FirstFailureAborts ==
    (op.name \in BusCalls /\ ~NoFailure) =>
        LET whole == NoFailRun.log
        IN  /\ \A i \in 1..Len(trace) : ~trace[i].ok => i = Len(trace)
            /\ res = "err"
            /\ Len(trace) <= Len(whole)
            /\ [i \in 1..Len(trace) |-> [trace[i] EXCEPT !.ok = TRUE]]
                  = SubSeq(whole, 1, Len(trace))

C6_Witness ==
    /\ op.name = "init"
    /\ res = "err"
    /\ Len(trace) = 30

-----------------------------------------------------------------------------
(* C7 *)

\* C7: a new session has offset (0,0); after set_offset(dx, dy) the offset is
\* (dx, dy), whatever it was; and a set_pixel(x, y, c) then transmits the
\* column words x+dx, x+dx and the row words y+dy, y+dy.
C7_OffsetReplacesAndApplies ==
    /\ op.name = "new" => (dx = 0 /\ dy = 0)
    /\ op.name = "set_offset" => (dx = op.a[1] /\ dy = op.a[2])
    /\ (op.name = "set_pixel" /\ NoFailure) =>
          LET bus == Bus
          IN  /\ Len(bus) >= 6
              /\ SubSeq(bus, 1, 6)
                    = WindowWrites(op.a[1], op.a[2], op.a[1], op.a[2])

-----------------------------------------------------------------------------
(* C8 *)

\* C8: when nothing fails, set_orientation(o) emits the memory-access-control
\* opcode and exactly one parameter byte: o's pattern, with 0x08 added iff the
\* colour order is BGR; no pattern has bit 0x08 itself, so the bit is set in
\* the byte iff the colour order is BGR.
C8_OrientationByte ==
    (op.name = "set_orientation" /\ NoFailure) =>
        LET pattern == CASE op.a[1] = "Portrait" -> 0
                         [] op.a[1] = "Landscape" -> 96
                         [] op.a[1] = "PortraitSwapped" -> 192
                         [] op.a[1] = "LandscapeSwapped" -> 160
            bus == Bus
        IN  /\ (pattern \div 8) % 2 = 0
            /\ bus = <<Opcode("MADCTL"),
                       Data(<<IF rgb THEN pattern ELSE pattern + 8>>)>>
            /\ ((bus[2].bytes[1] \div 8) % 2 = 1) <=> ~rgb

C8_Witness ==
    /\ op.name = "set_orientation"
    /\ op.a = <<"LandscapeSwapped">>
    /\ res = "ok"
    /\ ~rgb

-----------------------------------------------------------------------------
(* C9 *)

\* C9: when nothing fails, write_pixels given N colours emits exactly one
\* memory-write opcode followed by the N colours as big-endian words in
\* iteration order, and no other opcode.
C9_WritePixelsEmission ==
    (op.name = "write_pixels" /\ NoFailure) =>
        LET bus == Bus
        IN  /\ bus = [i \in 1..(1 + Len(op.colors)) |->
                         IF i = 1 THEN Opcode("RAMWR") ELSE Word(op.colors[i - 1])]
            /\ \A i \in 2..Len(bus) : bus[i].cmd = <<>>

C9_Witness ==
    /\ op.name = "write_pixels"
    /\ res = "ok"
    /\ op.colors = <<4779, 0>>

-----------------------------------------------------------------------------
(* C10 *)

\* C10: whatever the reset line was, a hard_reset in which no pin drive fails
\* drives the reset line high, low, high, makes exactly these three pin drives
\* and no bus write, and leaves the line high.
C10_HardResetPulse ==
    (op.name = "hard_reset" /\ NoFailure) =>
        /\ Len(trace) = 3
        /\ \A i \in 1..3 : trace[i].pin = "rst"
        /\ <<trace[1].v, trace[2].v, trace[3].v>> = <<1, 0, 1>>
        /\ rstLine = 1
        /\ dcLine = pre.dcLine

C10_Witness ==
    /\ op.name = "hard_reset"
    /\ res = "ok"
    /\ pre.rstLine = 0
-----------------------------------------------------------------------------
(* SpecExample: the 160x128 session that is initialised and then filled *)

\* RgbColor::BLACK as a raw 16-bit colour
BLACK == 0

\* the whole 160x128 screen
ExampleWindow == <<0, 0, 159, 127>>

\* ST7735::new(spi, dc, rst, true, true, 160, 128)
ExampleNew ==
    /\ rgb = TRUE
    /\ inverted = TRUE
    /\ dx = 0
    /\ dy = 0
    /\ width = 160
    /\ height = 128
    /\ dcLine \in {0, 1}
    /\ rstLine \in {0, 1}
    /\ overflowChecks \in BOOLEAN
    /\ op = NoCall
    /\ res = "none"
    /\ trace = <<>>
    /\ initialized = FALSE
    /\ bgrBit = -1
    /\ pre = Pre

ExampleInit == op = NoCall /\ InitCalled(MaxFailAt)

\* set_color on the initialised session
ExampleSetColor ==
    /\ op.name = "init"
    /\ res = "ok"
    /\ SetColorCalled({ExampleWindow}, {BLACK}, MaxFail)

NextExample ==
    \/ ExampleInit
    \/ ExampleSetColor

SpecExample == ExampleNew /\ [][NextExample]_vars

-----------------------------------------------------------------------------
(* C11 *)

\* C11: on the 160x128 session with rgb and inverted set and offset (0,0),
\* after a successful init, set_color(0, 0, 159, 127, BLACK) in which nothing
\* fails emits column-address-set with the words 0 and 159, row-address-set
\* with the words 0 and 127, one memory-write opcode and then exactly 20480
\* times the word 0x0000.
C11_ExampleFill ==
    (op.name = "set_color" /\ op.a = ExampleWindow \o <<BLACK>> /\ NoFailure) =>
        /\ initialized
        /\ res = "ok"
        /\ Bus = <<Opcode("CASET"), Word(0), Word(159),
                   Opcode("RASET"), Word(0), Word(127),
                   Opcode("RAMWR")>>
                 \o [i \in 1..20480 |-> Word(0)]

C11_Witness ==
    /\ op.name = "set_color"
    /\ op.a = ExampleWindow \o <<BLACK>>
    /\ initialized
    /\ res = "ok"
    /\ Len(trace) > 40000
-----------------------------------------------------------------------------
(* C12 *)

Drawing == {"set_pixel", "write_pixels", "set_pixels", "set_color"}

\* C12 as stated: a drawing operation (set_pixel, write_pixels, set_pixels,
\* set_color) writes an address-set or memory-write opcode to the bus only
\* when an init call on the session has returned Ok before.
C12_DrawingOnlyWhenInitialized ==
    (/\ op.name \in Drawing
     /\ \E i \in 1..Len(trace) :
            trace[i].cmd \in {<<"CASET">>, <<"RASET">>, <<"RAMWR">>})
        => pre.initialized

\* C12 amended: the session keeps no initialisation state, so a drawing
\* operation in which nothing fails writes its opcodes whether or not an init
\* has returned Ok: the first bus write of set_pixel, set_pixels and set_color
\* is the column-address-set opcode, that of write_pixels the memory-write
\* opcode.
C12_DrawingEmitsInAnyState ==
    (op.name \in Drawing /\ NoFailure) =>
        /\ Bus # <<>>
        /\ Head(Bus) = Opcode(IF op.name = "write_pixels"
                              THEN "RAMWR" ELSE "CASET")

C12_Witness ==
    /\ op.name = "set_pixel"
    /\ ~pre.initialized
    /\ res = "ok"
    /\ Head(Bus) = Opcode("CASET")
-----------------------------------------------------------------------------
(* C13 *)

\* C13 as stated: once an init has returned Ok on a session, no later call
\* on the session emits the initialisation sequence again (no later call
\* writes the software-reset opcode with which the sequence starts).
C13_NoReinitialisation ==
    pre.initialized =>
        \A i \in 1..Len(trace) : trace[i].cmd # <<"SWRESET">>

\* C13 amended: init can be called again on a session on which an init has
\* returned Ok, and when nothing fails it then makes the complete
\* initialisation sequence again (hard reset, software reset, ..., display
\* on), the same steps as the first time, and returns Ok.
C13_InitRepeats ==
    (op.name = "init" /\ pre.initialized /\ NoFailure) =>
        /\ res = "ok"
        /\ initialized
        /\ Steps = InitSteps(IF inverted THEN "INVON" ELSE "INVOFF",
                             IF rgb THEN 0 ELSE 8)

C13_Witness ==
    /\ op.name = "init"
    /\ pre.initialized
    /\ res = "ok"
    /\ Len(trace) > 50
-----------------------------------------------------------------------------
(* The drawing-surface adapter: impl DrawTarget<Rgb565> for ST7735 *)

\* x as u16 of a 32-bit x: the low 16 bits
AsU16(x) == x % U16

\* .expect(..) and .unwrap() on the Result of a method: Err aborts the call
Unwrap(r) == [r EXCEPT !.res = IF @ = "err" THEN "panic" ELSE @]

\* self.set_pixel(x as u16, y as u16, RawU16::from(color).into_inner())
draw_pixel(x, y, color) == set_pixel(AsU16(x), AsU16(y), color)

\* self.set_color(0, 0, self.width as u16 - 1, self.height as u16 - 1, color)
clear(color) ==
    LET ex == Sub16(AsU16(width), 1)
        ey == Sub16(AsU16(height), 1)
    IN  IF (ex.ovf \/ ey.ovf) /\ overflowChecks
        THEN <<Panic>>
        ELSE set_color(0, 0, ex.v, ey.v, color)

DrawPixelCalled(X, Y, C, limit) ==
    \E x \in X, y \in Y, color \in C :
        \E f \in FailAts(draw_pixel(x, y, color), limit) :
            Returns("draw_pixel", <<x, y, color>>, <<>>,
                    Unwrap(Run(draw_pixel(x, y, color), f)))

ClearCalled(C, limit) ==
    \E color \in C :
        \E f \in FailAts(clear(color), limit) :
            Returns("clear", <<color>>, <<>>, Unwrap(Run(clear(color), f)))

-----------------------------------------------------------------------------
(* SpecAdapter: one call of the adapter, on sessions of several sizes *)

\* width and height given to new (both u32)
AdapterSizes == {<<2, 1>>, <<1, 2>>, <<0, 2>>, <<65537, 2>>, <<256, 256>>}
AdapterOffsets == {<<0, 0>>, <<65535, 0>>}
\* pixel coordinates (both i32)
AdapterCoords == {-1, 0, 1, 65536}

InitAdapter ==
    /\ rgb \in BOOLEAN
    /\ inverted = FALSE
    /\ \E o \in AdapterOffsets : dx = o[1] /\ dy = o[2]
    /\ \E s \in AdapterSizes : width = s[1] /\ height = s[2]
    /\ dcLine \in {0, 1}
    /\ rstLine = 1
    /\ overflowChecks \in BOOLEAN
    /\ op = NoCall
    /\ res = "none"
    /\ trace = <<>>
    /\ initialized = FALSE
    /\ bgrBit = -1
    /\ pre = Pre

AdapterDrawPixel ==
    First /\ DrawPixelCalled(AdapterCoords, AdapterCoords, CallColors, MaxFailAt)
AdapterClear == First /\ ClearCalled(CallColors, MaxFailAt)

NextAdapter ==
    \/ AdapterDrawPixel
    \/ AdapterClear

SpecAdapter == InitAdapter /\ [][NextAdapter]_vars

-----------------------------------------------------------------------------
(* C14 *)

\* C14: no call of init, hard_reset, set_orientation, set_pixel,
\* write_pixels, set_pixels, set_color or of the adapter's draw_pixel and
\* clear aborts: whatever pin drive or bus write fails and whatever the
\* coordinates, the call returns a result.
C14_NoAbort ==
    op.name \in BusCalls \cup {"draw_pixel", "clear"} => res # "panic"
-----------------------------------------------------------------------------
(* C18 *)

\* C18: for every width and height given to new, clear(color) in which
\* nothing fails writes the address window (0,0)-(width-1, height-1), one
\* memory-write opcode and exactly width*height times the colour word: the
\* 32-bit dimensions reach the 16-bit window coordinates unchanged.  (Stated
\* for offset (0,0), where adding the offset cannot overflow.)
C18_ClearFillsScreen ==
    (op.name = "clear" /\ dx = 0 /\ dy = 0 /\ NoFailure) =>
        /\ res = "ok"
        /\ Bus = WindowWrites(0, 0, width - 1, height - 1)
                 \o <<Opcode("RAMWR")>>
                 \o [i \in 1..(width * height) |-> Word(op.a[1])]
-----------------------------------------------------------------------------
(* C15 *)

\* C15: a set_offset call makes no bus write and no pin drive (the levels of
\* dc and rst stay as they were), returns no result that could be a failure,
\* and changes no field of the session other than the offset, which becomes
\* the pair it was given.
C15_SetOffsetPure ==
    [][op'.name = "set_offset" =>
          /\ trace' = <<>>
          /\ res' = "none"
          /\ dcLine' = dcLine
          /\ rstLine' = rstLine
          /\ bgrBit' = bgrBit
          /\ <<rgb', inverted', width', height'>> = <<rgb, inverted, width, height>>
          /\ <<dx', dy'>> = op'.a]_vars

C15_Witness ==
    /\ op.name = "set_offset"
    /\ pre.dx = 0
    /\ dx = 65535
    /\ initialized
-----------------------------------------------------------------------------
(* C16 *)

\* C16: no call, whether it returns Ok, fails part-way or aborts, changes
\* the colour order, the inversion flag, the width or the height the session
\* was constructed with, and no call other than set_offset changes the
\* offset.
C16_ConfigurationFixed ==
    [][/\ <<rgb', inverted', width', height'>> = <<rgb, inverted, width, height>>
       /\ op'.name # "set_offset" => <<dx', dy'>> = <<dx, dy>>]_vars

C16_Witness ==
    /\ op.name = "set_pixels"
    /\ res = "err"
    /\ trace # <<>>
    /\ dx = 65535
    /\ initialized
-----------------------------------------------------------------------------
(* C17 *)

\* C17: for all 16-bit sx, sy, ex, ey (sx > ex and sy > ey included) and
\* every colour sequence of length N, set_pixels in which no write fails
\* emits exactly: column-address-set, the 16-bit words sx+offset_x and
\* ex+offset_x, row-address-set, the words sy+offset_y and ey+offset_y, one
\* memory-write opcode, and the N colour words in order; the coordinates are
\* neither validated nor reordered nor clamped and N is not compared with
\* the size of the window.
C17_SetPixelsEmission ==
    (op.name = "set_pixels" /\ NoFailure) =>
        /\ res = "ok"
        /\ Bus = WindowWrites(op.a[1], op.a[2], op.a[3], op.a[4])
                 \o <<Opcode("RAMWR")>>
                 \o [i \in 1..Len(op.colors) |-> Word(op.colors[i])]

-----------------------------------------------------------------------------
(* C19 *)

\* C19: in any sequence of calls, every parameter byte written after the
\* memory-access-control opcode has bit 0x08 set iff the colour order is BGR,
\* so the bit of the controller's register, once written, agrees with the
\* colour order, and it has been written when an init has returned Ok.
C19_ColourOrderBit ==
    /\ \A i \in 3..Len(trace) :
          (/\ trace[i].pin = "spi"
           /\ trace[i].cmd = <<>>
           /\ trace[i - 2].cmd = <<"MADCTL">>)
              => /\ Len(trace[i].bytes) = 1
                 /\ ((trace[i].bytes[1] \div 8) % 2 = 1) <=> ~rgb
    /\ bgrBit # -1 => (bgrBit = 1 <=> ~rgb)
    /\ initialized => bgrBit # -1

C19_Witness ==
    /\ op.name = "set_orientation"
    /\ op.a = <<"Landscape">>
    /\ res = "ok"
    /\ pre.initialized
    /\ ~rgb
    /\ bgrBit = 1
====
